---- MODULE Spec2Model ----
(***************************************************************************)
(* Model of src/iat/models.py: the Implicit Association Test app.          *)
(*                                                                         *)
(* Subsession.creating_session expands the block definition of a round     *)
(* through the stimulus table, shuffles the candidates, checks their       *)
(* number against the block's 'n', builds Trial objects and bulk-creates   *)
(* them.  custom_export (the fallback of lines 231-240) projects the Trial *)
(* table into rows.                                                        *)
(*                                                                         *)
(* Subsession is the per-round object of the hosting platform              *)
(* (Constants.num_rounds = len(BLOCKS), line 138; players carry            *)
(* round_number, line 153): creating_session is a method of one            *)
(* subsession and iterates that subsession's players, so a session with    *)
(* num_rounds rounds runs it once per round.                               *)
(***************************************************************************)
EXTENDS Integers, Sequences, FiniteSets, TLC

\* Bounds of the model.
MaxParticipants == 2
MaxAnswered == 1
MaxExportRuns == 2

VARIABLES
    config,           \* the module-level configuration: [STIMULI, BLOCKS]
    num_participants, \* session code -> number of participants of the session
    rounds_done,      \* session code -> number of subsessions whose creating_session returned
    errors,           \* session code -> the ValueError raised by its creating_session, or NoError
    pc,               \* "idle" | "loop": position of the running creating_session
    self,             \* the subsession creating_session runs on, or NoSelf
    player_i,         \* 1-based position of the loop of line 152 in self.get_players()
    trials,           \* the local list 'trials' of line 151
    store,            \* Trial.objects: the persisted Trial rows, in storage order
    out,              \* the rows yielded by the last complete custom_export run
    exportArg,        \* the 'players' argument of that run
    exports_since_write \* history: complete custom_export runs since the store was last written

vars == <<config, num_participants, rounds_done, errors, pc, self, player_i,
          trials, store, out, exportArg, exports_since_write>>

----------------------------------------------------------------------------
(* Python values of the nullable Trial fields and of the exported cells.   *)

None == [type |-> "NoneType"]
PyStr(s) == [type |-> "str", v |-> s]
PyInt(i) == [type |-> "int", v |-> i]
PyBool(b) == [type |-> "bool", v |-> b]

Range(s) == {s[k] : k \in DOMAIN s}

----------------------------------------------------------------------------
(* Configuration, lines 39-132.                                            *)
(* The entry  'glorioso'^,'risa'  of line 41 is read as the two words      *)
(* 'glorioso', 'risa' (the caret dropped).                                 *)

STIMULI ==
    ("atributos" :>
        (("positivas" :> <<"alegría", "amor", "paz", "maravilloso", "placer",
                           "glorioso", "risa", "feliz">>) @@
         ("negativas" :> <<"agonía", "terrible", "horrible", "desagradable",
                           "malvado", "malísimo", "fallo", "dolor">>))) @@
    ("conceptos" :>
        (("español" :> <<"español", "murciano", "canario", "madrileño",
                         "andaluz", "gallego">>) @@
         ("inmigrante" :> <<"inmigrante", "extranjero", "árabe", "africano",
                            "asiático", "latino">>)))

BLOCKS == <<
    [label |-> "Practice 1", n |-> 10,
     izquierda |-> << <<"conceptos", "español">> >>,
     derecha |-> << <<"conceptos", "inmigrante">> >>],
    [label |-> "Practice 2", n |-> 10,
     izquierda |-> << <<"atributos", "negativas">> >>,
     derecha |-> << <<"atributos", "positivas">> >>],
    [label |-> "Test 1", n |-> 20,
     izquierda |-> << <<"atributos", "negativas">>, <<"conceptos", "español">> >>,
     derecha |-> << <<"atributos", "positivas">>, <<"conceptos", "inmigrante">> >>],
    [label |-> "Test 2", n |-> 20,
     izquierda |-> << <<"atributos", "negativas">>, <<"conceptos", "español">> >>,
     derecha |-> << <<"atributos", "positivas">>, <<"conceptos", "inmigrante">> >>],
    [label |-> "Practice 3 (reversed)", n |-> 10,
     izquierda |-> << <<"conceptos", "inmigrante">> >>,
     derecha |-> << <<"conceptos", "español">> >>],
    [label |-> "Test 3", n |-> 20,
     izquierda |-> << <<"atributos", "negativas">>, <<"conceptos", "inmigrante">> >>,
     derecha |-> << <<"atributos", "positivas">>, <<"conceptos", "español">> >>],
    [label |-> "Test 4", n |-> 20,
     izquierda |-> << <<"atributos", "negativas">>, <<"conceptos", "inmigrante">> >>,
     derecha |-> << <<"atributos", "positivas">>, <<"conceptos", "español">> >>] >>

\* The configuration as shipped.
ShippedConfig == [STIMULI |-> STIMULI, BLOCKS |-> BLOCKS]

(* The stimuli are "just made up"; the experiment author fills in their own *)
(* (line 36).  Four such edits of the configuration, small enough for the  *)
(* shuffle of line 165 to be enumerated:                                    *)

\* one word per level, two single-selector blocks whose 'n' matches
SmallConfig ==
    [STIMULI |->
        ("atributos" :> (("positivas" :> <<"paz">>) @@ ("negativas" :> <<"fallo">>))) @@
        ("conceptos" :> (("español" :> <<"español">>) @@
                         ("inmigrante" :> <<"inmigrante">>))),
     BLOCKS |-> <<
        [label |-> "Practice 1", n |-> 2,
         izquierda |-> << <<"conceptos", "español">> >>,
         derecha |-> << <<"conceptos", "inmigrante">> >>],
        [label |-> "Practice 2", n |-> 2,
         izquierda |-> << <<"atributos", "negativas">> >>,
         derecha |-> << <<"atributos", "positivas">> >>] >>]

\* SmallConfig with one extra word in a level that only block 2 uses
ExtraWordConfig ==
    [STIMULI |->
        ("atributos" :> (("positivas" :> <<"paz", "amor">>) @@ ("negativas" :> <<"fallo">>))) @@
        ("conceptos" :> (("español" :> <<"español">>) @@
                         ("inmigrante" :> <<"inmigrante">>))),
     BLOCKS |-> SmallConfig.BLOCKS]

\* a block with two selectors on one side (as Test 1), then a practice block
PairedConfig ==
    [STIMULI |->
        ("atributos" :> (("positivas" :> <<"amor">>) @@ ("negativas" :> <<"dolor">>))) @@
        ("conceptos" :> (("español" :> <<"español">>) @@
                         ("inmigrante" :> <<"inmigrante">>))),
     BLOCKS |-> <<
        [label |-> "Test 1", n |-> 3,
         izquierda |-> << <<"atributos", "negativas">>, <<"conceptos", "español">> >>,
         derecha |-> << <<"atributos", "positivas">> >>],
        [label |-> "Practice 2", n |-> 2,
         izquierda |-> << <<"atributos", "negativas">> >>,
         derecha |-> << <<"atributos", "positivas">> >>] >>]

\* a single block whose stimuli are the signs "+" and "-"
SignsConfig ==
    [STIMULI |->
        ("atributos" :> (("positivas" :> <<"+">>) @@ ("negativas" :> <<"-">>))) @@
        ("conceptos" :> (("español" :> <<"español">>) @@
                         ("inmigrante" :> <<"inmigrante">>))),
     BLOCKS |-> <<
        [label |-> "Practice 2", n |-> 2,
         izquierda |-> << <<"atributos", "negativas">> >>,
         derecha |-> << <<"atributos", "positivas">> >>] >>]

Configs == {ShippedConfig, SmallConfig, ExtraWordConfig, PairedConfig}

\* Constants.num_rounds, line 138
num_rounds(cfg) == Len(cfg.BLOCKS)

SessionCodes == {"s1", "s2"}

----------------------------------------------------------------------------
(* Subsession.creating_session, lines 145-184.                             *)

NoSelf == [session |-> "", round_number |-> 0]
NoError == [raised |-> FALSE]

\* self.get_players(), line 152: the players of the subsession, each with its
\* session, its participant and its round_number
get_players(sub) ==
    [i \in 1..num_participants[sub.session] |->
        [session |-> sub.session, participant |-> i,
         round_number |-> sub.round_number]]

\* zip([side] * n_vals, [stim_class] * n_vals, [stim_lvl] * n_vals, stim_vals), line 162
zip_stimuli(side, stim_class, stim_lvl, stim_vals) ==
    [k \in 1..Len(stim_vals) |-> <<side, stim_class, stim_lvl, stim_vals[k]>>]

\* the loop of line 159 over block_def[side]
RECURSIVE extend_side(_, _, _)
extend_side(table, side, selectors) ==
    IF selectors = <<>> THEN <<>>
    ELSE zip_stimuli(side, Head(selectors)[1], Head(selectors)[2],
                     table[Head(selectors)[1]][Head(selectors)[2]])
         \o extend_side(table, side, Tail(selectors))

\* the list 'stimuli' after the loop of line 158 over ('izquierda', 'derecha')
candidates(cfg, block_def) ==
    extend_side(cfg.STIMULI, "izquierda", block_def.izquierda)
    \o extend_side(cfg.STIMULI, "derecha", block_def.derecha)

\* random.shuffle(stimuli), line 165: any permutation of the list
\* (faulty variant: the list is left in its own order)
shuffle_fixed(stimuli) == {stimuli}
shuffle(stimuli) ==
    {[k \in 1..Len(stimuli) |-> stimuli[perm[k]]] : perm \in Permutations(1..Len(stimuli))}

\* Trial(...), lines 175-182; trial_i is enumerate's 0-based index.  The
\* response fields keep the model fields' default, None.
\* (faulty variant: trial is the 0-based index)
Trial_zero_based(p, trial_i, stim_def) ==
    [block |-> p.round_number, trial |-> trial_i,
     stimulus |-> stim_def[4], stimulus_class |-> stim_def[2],
     stimulus_level |-> stim_def[3],
     response_key |-> None, response_correct |-> None, response_time_ms |-> None,
     player |-> p]
\* (faulty variant: stimulus_class and stimulus_level exchanged)
Trial_levels_swapped(p, trial_i, stim_def) ==
    [block |-> p.round_number, trial |-> trial_i + 1,
     stimulus |-> stim_def[4], stimulus_class |-> stim_def[3],
     stimulus_level |-> stim_def[2],
     response_key |-> None, response_correct |-> None, response_time_ms |-> None,
     player |-> p]
Trial(p, trial_i, stim_def) ==
    [block |-> p.round_number, trial |-> trial_i + 1,
     stimulus |-> stim_def[4], stimulus_class |-> stim_def[2],
     stimulus_level |-> stim_def[3],
     response_key |-> None, response_correct |-> None, response_time_ms |-> None,
     player |-> p]

\* the loop of lines 172-182 for one player
new_trials(p, stimuli) ==
    [k \in 1..Len(stimuli) |-> Trial(p, k - 1, stimuli[k])]

\* the player, block definition and candidates of the current loop iteration
cur_player == get_players(self)[player_i]
\* block_num = p.round_number - 1 indexes the 0-based Python list (lines 153-154)
block_num(p) == p.round_number - 1
cur_block_def == config.BLOCKS[block_num(cur_player) + 1]
cur_stimuli == candidates(config, cur_block_def)

\* The platform's session setup calls creating_session on the next subsession
\* of session s; line 151.
creating_session_begin(s) ==
    /\ pc = "idle"
    /\ errors[s] = NoError
    /\ rounds_done[s] < num_rounds(config)
    /\ pc' = "loop"
    /\ self' = [session |-> s, round_number |-> rounds_done[s] + 1]
    /\ player_i' = 1
    /\ trials' = <<>>
    /\ UNCHANGED <<config, num_participants, rounds_done, errors, store, out,
                   exportArg, exports_since_write>>

\* One loop iteration ending in the raise of lines 167-169: the exception
\* leaves creating_session, the local list is dropped and line 184 is not
\* reached.  (The length the check reads is the same for every outcome of the
\* shuffle of line 165, so the shuffle is not enumerated here.)
\* (faulty variant: the Trials are created and saved before the length check)
creating_session_raise_after_create ==
    /\ pc = "loop"
    /\ player_i <= Len(get_players(self))
    /\ Len(cur_stimuli) # cur_block_def.n
    /\ store' = store \o new_trials(cur_player, cur_stimuli)
    /\ errors' = [errors EXCEPT ![self.session] =
                    [raised |-> TRUE, actual |-> Len(cur_stimuli),
                     expected |-> cur_block_def.n]]
    /\ pc' = "idle"
    /\ self' = NoSelf
    /\ player_i' = 0
    /\ trials' = <<>>
    /\ exports_since_write' = 0
    /\ UNCHANGED <<config, num_participants, rounds_done, out, exportArg>>
creating_session_raise ==
    /\ pc = "loop"
    /\ player_i <= Len(get_players(self))
    /\ Len(cur_stimuli) # cur_block_def.n
    /\ errors' = [errors EXCEPT ![self.session] =
                    [raised |-> TRUE, actual |-> Len(cur_stimuli),
                     expected |-> cur_block_def.n]]
    /\ pc' = "idle"
    /\ self' = NoSelf
    /\ player_i' = 0
    /\ trials' = <<>>
    /\ UNCHANGED <<config, num_participants, rounds_done, store, out,
                   exportArg, exports_since_write>>

\* One loop iteration, lines 153-182, in which the shuffle yields 'shuffled'.
\* (faulty variant: each player's Trials are saved inside the loop)
creating_session_trials_eager(shuffled) ==
    /\ pc = "loop"
    /\ player_i <= Len(get_players(self))
    /\ Len(cur_stimuli) = cur_block_def.n
    /\ shuffled \in shuffle(cur_stimuli)
    /\ store' = store \o new_trials(cur_player, shuffled)
    /\ exports_since_write' = 0
    /\ player_i' = player_i + 1
    /\ UNCHANGED <<config, num_participants, rounds_done, errors, pc, self,
                   trials, out, exportArg>>
creating_session_trials(shuffled) ==
    /\ pc = "loop"
    /\ player_i <= Len(get_players(self))
    /\ Len(cur_stimuli) = cur_block_def.n
    /\ shuffled \in shuffle(cur_stimuli)
    /\ trials' = trials \o new_trials(cur_player, shuffled)
    /\ player_i' = player_i + 1
    /\ UNCHANGED <<config, num_participants, rounds_done, errors, pc, self,
                   store, out, exportArg, exports_since_write>>

creating_session_player ==
    /\ pc = "loop"
    /\ player_i <= Len(get_players(self))
    /\ Len(cur_stimuli) = cur_block_def.n
    /\ \E shuffled \in shuffle(cur_stimuli) : creating_session_trials(shuffled)

\* Trial.objects.bulk_create(trials), line 184, and the return.
creating_session_bulk_create ==
    /\ pc = "loop"
    /\ player_i > Len(get_players(self))
    /\ store' = store \o trials
    /\ exports_since_write' = IF trials # <<>> THEN 0 ELSE exports_since_write
    /\ rounds_done' = [rounds_done EXCEPT ![self.session] = @ + 1]
    /\ pc' = "idle"
    /\ self' = NoSelf
    /\ player_i' = 0
    /\ trials' = <<>>
    /\ UNCHANGED <<config, num_participants, errors, out, exportArg>>

creating_session ==
    \/ \E s \in DOMAIN num_participants : creating_session_begin(s)
    \/ creating_session_raise
    \/ creating_session_player
    \/ creating_session_bulk_create

----------------------------------------------------------------------------
(* The response written back into a Trial by the experiment page: the      *)
(* "unanswered -> answered" step of a TrialRecord.  The page code is not   *)
(* part of models.py; this follows the specification: a record is mutated  *)
(* exactly once, when the participant responds, and participants cannot    *)
(* answer before generation has completed.                                 *)

Responses ==
    {[key |-> "E", correct |-> TRUE, ms |-> 812],
     [key |-> "I", correct |-> FALSE, ms |-> 640]}

answered(t) == t.response_key # None

num_answered == Cardinality({k \in DOMAIN store : answered(store[k])})

respond(k, r) ==
    /\ pc = "idle"
    /\ k \in DOMAIN store
    /\ ~answered(store[k])
    /\ rounds_done[store[k].player.session] = num_rounds(config)
    /\ num_answered < MaxAnswered
    /\ store' = [store EXCEPT ![k] =
                    [@ EXCEPT !.response_key = PyStr(r.key),
                              !.response_correct = PyBool(r.correct),
                              !.response_time_ms = PyInt(r.ms)]]
    /\ exports_since_write' = 0
    /\ UNCHANGED <<config, num_participants, rounds_done, errors, pc, self,
                   player_i, trials, out, exportArg>>

----------------------------------------------------------------------------
(* custom_export, lines 231-240.                                           *)

\* otree.export.sanitize_for_csv (imported at line 20) as the specification
\* describes it: a leading character that a spreadsheet reads as a formula is
\* escaped, line endings are normalised, other text and non-text values are
\* unaffected.
FormulaLeads == {"=", "+", "-", "@"}

escape_formula(s) ==
    IF Len(s) > 0 /\ SubSeq(s, 1, 1) \in FormulaLeads THEN "'" \o s ELSE s

RECURSIVE normalize_newlines(_)
normalize_newlines(s) ==
    IF Len(s) = 0 THEN s
    ELSE IF SubSeq(s, 1, 1) = "\r"
         THEN IF Len(s) > 1 /\ SubSeq(s, 2, 2) = "\n"
              THEN "\n" \o normalize_newlines(SubSeq(s, 3, Len(s)))
              ELSE "\n" \o normalize_newlines(SubSeq(s, 2, Len(s)))
         ELSE SubSeq(s, 1, 1) \o normalize_newlines(SubSeq(s, 2, Len(s)))

sanitize_for_csv(value) ==
    IF value.type = "str"
    THEN PyStr(escape_formula(normalize_newlines(value.v)))
    ELSE value

\* fields_to_export, lines 235-236
fields_to_export ==
    <<"block", "trial", "stimulus", "stimulus_class", "stimulus_level",
      "response_key", "response_correct", "response_time_ms">>

\* getattr(trial, f), line 240
getattr(trial, f) ==
    CASE f = "block" -> PyInt(trial.block)
      [] f = "trial" -> PyInt(trial.trial)
      [] f = "stimulus" -> PyStr(trial.stimulus)
      [] f = "stimulus_class" -> PyStr(trial.stimulus_class)
      [] f = "stimulus_level" -> PyStr(trial.stimulus_level)
      [] f = "response_key" -> trial.response_key
      [] f = "response_correct" -> trial.response_correct
      [] f = "response_time_ms" -> trial.response_time_ms

\* trial.player.session.code and trial.player.participant.code, line 239
session_code(p) == PyStr(p.session)
participant_code(p) == PyStr(p.session \o "-p" \o ToString(p.participant))

\* A value of a data row.  'sanitized' is a history annotation: whether the
\* value is the result of a sanitize_for_csv call.
raw_cell(value) == [value |-> value, sanitized |-> FALSE]
sanitized_cell(value) == [value |-> sanitize_for_csv(value), sanitized |-> TRUE]

\* the header row, line 237
header_row == <<"session", "participant_code">> \o fields_to_export

\* one data row, lines 239-240
\* (faulty variant: no value is sanitized)
data_row_unsanitized(trial) ==
    <<raw_cell(session_code(trial.player)), raw_cell(participant_code(trial.player))>>
    \o [j \in 1..Len(fields_to_export) |-> raw_cell(getattr(trial, fields_to_export[j]))]
\* (faulty variant: the block and response_key columns exchanged)
data_row_key_first(trial) ==
    <<raw_cell(session_code(trial.player)), raw_cell(participant_code(trial.player))>>
    \o [j \in 1..Len(fields_to_export) |->
            sanitized_cell(getattr(trial,
                fields_to_export[IF j = 1 THEN 6 ELSE IF j = 6 THEN 1 ELSE j]))]
data_row(trial) ==
    <<raw_cell(session_code(trial.player)), raw_cell(participant_code(trial.player))>>
    \o [j \in 1..Len(fields_to_export) |->
            sanitized_cell(getattr(trial, fields_to_export[j]))]

\* Trial.objects.all(), line 238: every row of the table, in storage order
objects_all == store

\* the trials of a sequence that are owned by one of 'players'
RECURSIVE owned_by(_, _)
owned_by(s, players) ==
    IF s = <<>> THEN <<>>
    ELSE (IF Head(s).player \in players THEN <<Head(s)>> ELSE <<>>)
         \o owned_by(Tail(s), players)

\* every player object (one per round) of a session
players_of(s) ==
    {[session |-> s, participant |-> i, round_number |-> r] :
        i \in 1..num_participants[s], r \in 1..num_rounds(config)}

\* the arguments the platform's export feature passes
PlayerArgs == {{}} \cup {players_of(s) : s \in DOMAIN num_participants}

\* A complete run of the generator custom_export(players).  The core is
\* single-threaded: a run does not overlap a running creating_session.
\* (variant: only the Trials of 'players' are exported)
custom_export_filtered(players) ==
    /\ pc = "idle"
    /\ exports_since_write < MaxExportRuns
    /\ out' = <<header_row>> \o
              [k \in 1..Len(owned_by(objects_all, players)) |->
                    data_row(owned_by(objects_all, players)[k])]
    /\ exportArg' = players
    /\ exports_since_write' = exports_since_write + 1
    /\ UNCHANGED <<config, num_participants, rounds_done, errors, pc, self,
                   player_i, trials, store>>
\* (faulty variant: the exported Trials are deleted)
custom_export_consuming(players) ==
    /\ pc = "idle"
    /\ exports_since_write < MaxExportRuns
    /\ out' = <<header_row>> \o [k \in 1..Len(objects_all) |-> data_row(objects_all[k])]
    /\ exportArg' = players
    /\ exports_since_write' = exports_since_write + 1
    /\ store' = <<>>
    /\ UNCHANGED <<config, num_participants, rounds_done, errors, pc, self,
                   player_i, trials>>
custom_export(players) ==
    /\ pc = "idle"
    /\ exports_since_write < MaxExportRuns
    /\ out' = <<header_row>> \o [k \in 1..Len(objects_all) |-> data_row(objects_all[k])]
    /\ exportArg' = players
    /\ exports_since_write' = exports_since_write + 1
    /\ UNCHANGED <<config, num_participants, rounds_done, errors, pc, self,
                   player_i, trials, store>>

----------------------------------------------------------------------------
NoOutput == <<>>

InitCommon ==
    /\ rounds_done = [s \in DOMAIN num_participants |-> 0]
    /\ errors = [s \in DOMAIN num_participants |-> NoError]
    /\ pc = "idle"
    /\ self = NoSelf
    /\ player_i = 0
    /\ trials = <<>>
    /\ store = <<>>
    /\ out = NoOutput
    /\ exportArg = {}
    /\ exports_since_write = 0

\* One session of MaxParticipants participants, under any of the configurations.
Init ==
    /\ config \in Configs
    /\ num_participants = [s \in {"s1"} |-> MaxParticipants]
    /\ InitCommon

Next == creating_session

Spec == Init /\ [][Next]_vars

\* Two sessions of one participant each, with responses and exports.
InitExport ==
    /\ config \in {SignsConfig, ShippedConfig}
    /\ num_participants = [s \in SessionCodes |-> 1]
    /\ InitCommon

NextExport ==
    \/ creating_session
    \/ \E k \in DOMAIN store, r \in Responses : respond(k, r)
    \/ \E players \in PlayerArgs : custom_export(players)

SpecExport == InitExport /\ [][NextExport]_vars

----------------------------------------------------------------------------
(* Properties.                                                             *)

Sessions == DOMAIN num_participants

\* the positions of 'records' that hold a Trial of participant i of session s
\* with block r
trials_of(records, s, i, r) ==
    {k \in DOMAIN records :
        /\ records[k].player.session = s
        /\ records[k].player.participant = i
        /\ records[k].block = r}

\* the number of positions of a sequence that hold x
count(seq, x) == Cardinality({k \in DOMAIN seq : seq[k] = x})

\* C1: every block of the shipped BLOCKS list expands, through the shipped
\* STIMULI table, to exactly as many candidate tuples as its 'n' declares.
C1_ShippedCountsMatch ==
    config = ShippedConfig =>
        \A b \in DOMAIN BLOCKS : Len(candidates(ShippedConfig, BLOCKS[b])) = BLOCKS[b].n

\* C2: once creating_session has returned for a round, every participant of
\* the session owns exactly n persisted Trials with that block number, and
\* their trial numbers are 1..n, each once.
C2_TrialNumbersContiguous ==
    \A s \in Sessions : \A r \in 1..rounds_done[s] : \A i \in 1..num_participants[s] :
        LET ks == trials_of(store, s, i, r) IN
        /\ Cardinality(ks) = config.BLOCKS[r].n
        /\ {store[k].trial : k \in ks} = 1..config.BLOCKS[r].n

C2_Witness ==
    /\ config = PairedConfig
    /\ rounds_done["s1"] = num_rounds(config)
    /\ Len(store) = (3 + 2) * num_participants["s1"]

generated == store \o trials

pair_generated(s, i, r) ==
    \/ r <= rounds_done[s]
    \/ pc = "loop" /\ self = [session |-> s, round_number |-> r] /\ i < player_i

C4_SameMultisetOfStimuli ==
    /\ \A s \in Sessions : \A i \in 1..num_participants[s] :
       \A r \in 1..num_rounds(config) :
            pair_generated(s, i, r) =>
                LET ks == trials_of(generated, s, i, r)
                    got == [k \in 1..Len(generated) |->
                                IF k \in ks
                                THEN <<generated[k].stimulus, generated[k].stimulus_class,
                                       generated[k].stimulus_level>>
                                ELSE <<>>]
                    cand == candidates(config, config.BLOCKS[r])
                    want == [k \in 1..Len(cand) |-> <<cand[k][4], cand[k][2], cand[k][3]>>]
                IN /\ Cardinality(ks) = Len(cand)
                   /\ \A x \in Range(want) : count(got, x) = count(want, x)
    /\ \A k \in DOMAIN generated :
            /\ generated[k].block = generated[k].player.round_number
            /\ generated[k].player.session \in Sessions
            /\ generated[k].player.participant \in 1..num_participants[generated[k].player.session]
            /\ pair_generated(generated[k].player.session,
                              generated[k].player.participant, generated[k].block)

\* two participants of one round were given different orders
C4_Witness ==
    /\ config = PairedConfig
    /\ rounds_done["s1"] = num_rounds(config)
    /\ \E k1, k2 \in DOMAIN store :
            /\ store[k1].block = store[k2].block
            /\ store[k1].trial = store[k2].trial
            /\ store[k1].player.participant # store[k2].player.participant
            /\ store[k1].stimulus # store[k2].stimulus
            /\ store[k1].stimulus_class # store[k2].stimulus_class

\* C5: a run of the export yields the header row first, then one data row per
\* persisted Trial, in storage order; every data row is as long as the header
\* and holds, in the header's column order, the session code, the participant
\* code and the Trial's field values as emitted for CSV.
values_of(row) == [j \in 1..Len(row) |-> row[j].value]

C5_HeaderThenOneRowPerTrial ==
    [][(\E players \in PlayerArgs : custom_export(players)) =>
        /\ out'[1] = <<"session", "participant_code", "block", "trial", "stimulus",
                       "stimulus_class", "stimulus_level", "response_key",
                       "response_correct", "response_time_ms">>
        /\ Len(out') = 1 + Len(store)
        /\ \A k \in DOMAIN store :
            /\ Len(out'[k + 1]) = Len(out'[1])
            /\ values_of(out'[k + 1]) =
                <<session_code(store[k].player),
                  participant_code(store[k].player),
                  sanitize_for_csv(PyInt(store[k].block)),
                  sanitize_for_csv(PyInt(store[k].trial)),
                  sanitize_for_csv(PyStr(store[k].stimulus)),
                  sanitize_for_csv(PyStr(store[k].stimulus_class)),
                  sanitize_for_csv(PyStr(store[k].stimulus_level)),
                  sanitize_for_csv(store[k].response_key),
                  sanitize_for_csv(store[k].response_correct),
                  sanitize_for_csv(store[k].response_time_ms)>>]_vars

\* an export of a store that holds an answered Trial
C5_Witness ==
    /\ exports_since_write > 0
    /\ Len(out) = 1 + Len(store)
    /\ Len(out) > 2
    /\ \E k \in 2..Len(out) :
        /\ out[k][8].value = PyStr("E")
        /\ out[k][9].value = PyBool(TRUE)
        /\ out[k][10].value = PyInt(812)

\* C6 as stated: every value of every data row, the session code and the
\* participant code included, has been passed through sanitize_for_csv.
C6_EveryValueSanitized ==
    \A k \in 2..Len(out) : \A j \in 1..Len(out[k]) : out[k][j].sanitized

\* C6 as amended: the eight Trial field values of every data row have been
\* passed through sanitize_for_csv; the session code and the participant code
\* are emitted as they are, without sanitization.
C6_TrialFieldsSanitizedCodesRaw ==
    \A k \in 2..Len(out) :
        /\ Len(out[k]) = 2 + Len(fields_to_export)
        /\ ~out[k][1].sanitized
        /\ ~out[k][2].sanitized
        /\ \A j \in 3..Len(out[k]) :
            /\ out[k][j].sanitized
            /\ exports_since_write > 0 =>
                out[k][j].value = sanitize_for_csv(getattr(store[k - 1], fields_to_export[j - 2]))

\* an exported row in which sanitization changed a value
C6_Witness ==
    /\ exports_since_write > 0
    /\ \E k \in 2..Len(out) :
        /\ store[k - 1].stimulus = "+"
        /\ out[k][5].value = PyStr("'+")
        /\ out[k][1].value = PyStr("s1")

all_orders(stimuli) ==
    {o \in [1..Len(stimuli) -> Range(stimuli)] :
        \A a, b \in 1..Len(stimuli) : a # b => o[a] # o[b]}

C9_EveryOrderPossible ==
    (/\ pc = "loop"
     /\ player_i <= Len(get_players(self))
     /\ Len(cur_stimuli) = cur_block_def.n)
    => \A o \in all_orders(cur_stimuli) :
            ENABLED (/\ creating_session_player
                     /\ Len(trials') = Len(trials) + Len(o)
                     /\ \A k \in 1..Len(o) :
                            /\ trials'[Len(trials) + k].stimulus = o[k][4]
                            /\ trials'[Len(trials) + k].trial = k)

\* the second participant of a round is about to be shuffled after the first
\* was given an order other than the candidates' own
C9_Witness ==
    /\ config = PairedConfig
    /\ pc = "loop"
    /\ player_i = 2
    /\ Len(trials) = 3
    /\ trials[1].stimulus = cur_stimuli[3][4]
    /\ trials[3].stimulus = cur_stimuli[1][4]

\* C10: whatever the 'players' argument, a run of the export emits one data
\* row for every Trial of the store, of any player and any session.
C10_ExportIgnoresPlayers ==
    [][\A players \in PlayerArgs : custom_export(players) =>
        /\ Len(out') = 1 + Len(store)
        /\ \A k \in DOMAIN store :
            /\ out'[k + 1][1].value = PyStr(store[k].player.session)
            /\ out'[k + 1][2].value = participant_code(store[k].player)
            /\ out'[k + 1][4].value.v = store[k].trial]_vars

\* the players of session s1 were passed and a Trial of session s2 was exported
C10_Witness ==
    /\ exports_since_write > 0
    /\ exportArg = players_of("s1")
    /\ exportArg # {}
    /\ \E k \in 2..Len(out) : out[k][1].value = PyStr("s2")

====
